---- MODULE Spec2Model ----
(***************************************************************************)
(* The kfp-api charm (charms/kfp-api/src/charm.py) as a state machine.     *)
(*                                                                         *)
(* The charm is single-threaded and runs every hook to completion, so one  *)
(* action of the model is one hook handler, from its first statement to    *)
(* its return or its uncaught exception.  The state is the unit status,    *)
(* the workload container's file area, the cluster resources, and a record *)
(* of what the last hook did; everything the handlers read from Juju,      *)
(* Pebble and Kubernetes is the environment, which changes between hooks.  *)
(*                                                                         *)
(* Texts the charm only compares or prints are strings; status messages    *)
(* are sequences of words, so that "the message contains ..." can be       *)
(* stated.                                                                 *)
(***************************************************************************)
EXTENDS Integers, Sequences, FiniteSets, TLC

VARIABLES
    \* ---- the environment ------------------------------------------------
    is_leader,       \* self.unit.is_leader()
    mysql,           \* the mysql relations: [count, units, data]
    relational_db,   \* the relational-db relation: [present, keys, endpoints]
    negotiation,     \* outcome of get_interfaces(self)
    object_storage,  \* what interfaces["object-storage"] holds
    kfp_viz,         \* what interfaces["kfp-viz"] holds
    kfp_api,         \* whether interfaces["kfp-api"] is an interface object
    can_connect,     \* container.can_connect()
    k8s_api,         \* how the Kubernetes API answers an apply
    replan,          \* how Pebble answers the replan of update_layer
    check,           \* the Pebble check "kfp-api-up"
    \* ---- the program ----------------------------------------------------
    status,          \* self.model.unit.status
    files,           \* the files pushed to the workload container
    resources,       \* the cluster resources of K8S_RESOURCE_FILES
    last             \* the last hook: handler, steps taken, how it ended

envVars == <<is_leader, mysql, relational_db, negotiation, object_storage,
             kfp_viz, kfp_api, can_connect, k8s_api, replan, check>>
progVars == <<status, files, resources, last>>
vars == <<is_leader, mysql, relational_db, negotiation, object_storage,
          kfp_viz, kfp_api, can_connect, k8s_api, replan, check,
          status, files, resources, last>>

-----------------------------------------------------------------------------
(* Bounds *)

\* The most mysql relations the model establishes at once.
MaxMysqlRelations == 2

\* The most parts of the environment that are away from a healthy
\* deployment at once.
MaxDegraded == 2

-----------------------------------------------------------------------------
(* Status values and message texts *)

ActiveStatus == [name |-> "active", message |-> <<>>]
BlockedStatus(msg) == [name |-> "blocked", message |-> msg]
WaitingStatus(msg) == [name |-> "waiting", message |-> msg]
MaintenanceStatus(msg) == [name |-> "maintenance", message |-> msg]
\* The status of a unit no handler has written yet.
UnknownStatus == [name |-> "unknown", message |-> <<>>]
\* The status field of a failure that carries none.
NoStatus == [name |-> "none", message |-> <<>>]

MYSQL_WARNING == <<"Relation", "mysql", "is", "deprecated", ".">>
UNBLOCK_MESSAGE == <<"Remove", "deprecated", "mysql", "relation", "to", "unblock", ".">>

\* w occurs in msg as a run of consecutive words.
Contains(msg, w) ==
    \E i \in 1..(Len(msg) + 1 - Len(w)) : SubSeq(msg, i, i + Len(w) - 1) = w

-----------------------------------------------------------------------------
(* Relation data *)

\* The keys _get_mysql_data reads, in the order it reads them.
MysqlRequiredKeys == <<"database", "root_password", "host", "port">>
MysqlRequired == {MysqlRequiredKeys[i] : i \in DOMAIN MysqlRequiredKeys}
\* A key Juju itself publishes in a unit's data bag.
MysqlOtherKeys == {"ingress-address"}
MysqlKeys == MysqlRequired \cup MysqlOtherKeys

\* What the mysql peer publishes under a key.
MysqlValue(k) ==
    CASE k = "database" -> "peer_db"
      [] k = "root_password" -> "peer_root_password"
      [] k = "host" -> "peer_host"
      [] k = "port" -> "peer_port"
      [] OTHER -> "10.0.0.1"

\* The keys _get_relational_db_data reads, in the order it reads them.
RdbRequiredKeys == <<"password", "username", "endpoints">>
RdbKeys == {RdbRequiredKeys[i] : i \in DOMAIN RdbRequiredKeys}

RdbValue(k) ==
    CASE k = "password" -> "lib_password"
      [] k = "username" -> "lib_username"
      [] OTHER -> ""

\* The endpoints values of the model, as sequences of characters: one
\* host:port pair, no colon, and two colons.
EndpointsChoices == { <<"h", ":", "1">>, <<"h", "1">>, <<"h", ":", "1", ":", "2">> }
NoEndpoints == <<>>

\* No mysql relation: no unit and no data to read either.
NoMysql == [count |-> 0, units |-> FALSE, data |-> {}]
\* More than one mysql relation: model.get_relation("mysql") names none of
\* them, so no data bag is ever read.
ManyMysql(n) == [count |-> n, units |-> TRUE, data |-> MysqlRequired]
OneMysql(u, d) == [count |-> 1, units |-> u, data |-> d]

MysqlChoices ==
    {NoMysql}
    \cup {OneMysql(FALSE, {})}
    \cup {OneMysql(TRUE, d) : d \in SUBSET MysqlKeys}
    \cup {ManyMysql(n) : n \in 2..MaxMysqlRelations}

\* The mysql relations the environment of the state machine moves through:
\* none, several, one without a unit, and one whose unit has published
\* nothing, only a key of Juju's, all required keys but one, or all of them.
MysqlSamples ==
    {NoMysql}
    \cup {OneMysql(FALSE, {})}
    \cup {OneMysql(TRUE, d) :
            d \in {{}, MysqlOtherKeys, MysqlRequired \ {"port"}, MysqlRequired}}
    \cup {ManyMysql(n) : n \in 2..MaxMysqlRelations}

NoRdb == [present |-> FALSE, keys |-> {}, endpoints |-> NoEndpoints]
RdbChoices ==
    {NoRdb}
    \cup {[present |-> TRUE, keys |-> ks, endpoints |-> NoEndpoints] :
            ks \in SUBSET (RdbKeys \ {"endpoints"})}
    \cup {[present |-> TRUE, keys |-> ks \cup {"endpoints"}, endpoints |-> e] :
            ks \in SUBSET (RdbKeys \ {"endpoints"}), e \in EndpointsChoices}

\* The relational-db relations the environment of the state machine moves
\* through: none, one without data, one with a key missing, and one with all
\* keys and each of the endpoints values.
RdbSamples ==
    {NoRdb}
    \cup {[present |-> TRUE, keys |-> {}, endpoints |-> NoEndpoints]}
    \cup {[present |-> TRUE, keys |-> RdbKeys \ {"username"}, endpoints |-> <<"h", ":", "1">>]}
    \cup {[present |-> TRUE, keys |-> RdbKeys, endpoints |-> e] : e \in EndpointsChoices}

NegotiationChoices == {"ok", "NoVersionsListed", "NoCompatibleVersions", "RelationDataError"}
\* What an entry of the interfaces dict can be: a valid first record, no
\* entry (None), an object that is no SerializedDataInterface, data failing
\* the schema, no data exchanged yet, and an empty first record.
InterfaceChoices == {"valid", "absent", "not_sdi", "invalid", "no_data", "empty"}
K8sChoices == {"ok", "conflict", "conflict_unforceable", "error"}
CheckChoices == {"up", "down", "missing", "unreachable"}

-----------------------------------------------------------------------------
(* Results of the charm's functions *)

\* A function of the charm returns a value or raises.  exc is "none" or the
\* class of the exception, err the status an ErrorWithStatus carries, val
\* the value returned, log the calls and reads made on the way.
Return(v, log) == [exc |-> "none", err |-> NoStatus, val |-> v, log |-> log]
Raise(exc, st, v, log) == [exc |-> exc, err |-> st, val |-> v, log |-> log]

\* The result r of a call made after the calls that logged log.
Chain(log, r) == [r EXCEPT !.log = log \o @]

\* db_data before anything is stored in it.
EmptyDbData ==
    [db_name |-> "", db_password |-> "", db_username |-> "", db_host |-> "", db_port |-> ""]

-----------------------------------------------------------------------------
(* Database resolution: _get_db_relation .. _get_db_data *)

\* self.model.get_relation(relation_name): None without a relation, the
\* relation when there is one, TooManyRelatedAppsError (a ModelError) when
\* there are several.  have is whether a relation was returned.
get_relation(relation_name, my, rdb) ==
    IF relation_name = "mysql"
    THEN IF my.count = 0 THEN [exc |-> "none", have |-> FALSE]
         ELSE IF my.count = 1 THEN [exc |-> "none", have |-> TRUE]
         ELSE [exc |-> "ModelError", have |-> FALSE]
    ELSE [exc |-> "none", have |-> rdb.present]

\* The relation found: only KeyError is caught, and no relation is a
\* GenericCharmRuntimeError.
DbRelationOf(r) ==
    IF r.exc = "none" /\ ~r.have
    THEN [exc |-> "GenericCharmRuntimeError", have |-> FALSE]
    ELSE r

_get_db_relation(relation_name, my, rdb) == DbRelationOf(get_relation(relation_name, my, rdb))

\* The keys of MysqlRequiredKeys the data bag lacks, by position.
MysqlMissing(data) == {i \in DOMAIN MysqlRequiredKeys : MysqlRequiredKeys[i] \notin data}

\* MysqlDataOf with Blocked for incomplete data.
MysqlDataOf_blocked(relation, my) ==
    IF relation.exc # "none"
    THEN Raise(relation.exc, NoStatus, EmptyDbData, <<"_get_mysql_data">>)
    ELSE IF ~my.units
    THEN \* next(iter(relation.units)) raises StopIteration, relation_data is {}
         Raise("GenericCharmRuntimeError", NoStatus, EmptyDbData, <<"_get_mysql_data">>)
    ELSE IF MysqlMissing(my.data) = {}
    THEN Return([db_name |-> MysqlValue("database"),
                 db_password |-> MysqlValue("root_password"),
                 db_username |-> "root",
                 db_host |-> MysqlValue("host"),
                 db_port |-> MysqlValue("port")],
                <<"_get_mysql_data", "read_mysql_data">>)
    ELSE IF my.data = {}
    THEN \* KeyError and "not relation_data"
         Raise("GenericCharmRuntimeError", NoStatus, EmptyDbData,
               <<"_get_mysql_data", "read_mysql_data">>)
    ELSE \* KeyError on the first missing key
         Raise("ErrorWithStatus",
               BlockedStatus(<<"Incorrect/incomplete", "data", "found", "in",
                               "relation", "mysql", ".", "See", "logs">>),
               EmptyDbData, <<"_get_mysql_data", "read_mysql_data">>)

\* MysqlDataOf with another constant user name.
MysqlDataOf_user(relation, my) ==
    IF relation.exc # "none"
    THEN Raise(relation.exc, NoStatus, EmptyDbData, <<"_get_mysql_data">>)
    ELSE IF ~my.units
    THEN \* next(iter(relation.units)) raises StopIteration, relation_data is {}
         Raise("GenericCharmRuntimeError", NoStatus, EmptyDbData, <<"_get_mysql_data">>)
    ELSE IF MysqlMissing(my.data) = {}
    THEN Return([db_name |-> MysqlValue("database"),
                 db_password |-> MysqlValue("root_password"),
                 db_username |-> "mysql",
                 db_host |-> MysqlValue("host"),
                 db_port |-> MysqlValue("port")],
                <<"_get_mysql_data", "read_mysql_data">>)
    ELSE IF my.data = {}
    THEN \* KeyError and "not relation_data"
         Raise("GenericCharmRuntimeError", NoStatus, EmptyDbData,
               <<"_get_mysql_data", "read_mysql_data">>)
    ELSE \* KeyError on the first missing key
         Raise("ErrorWithStatus",
               WaitingStatus(<<"Incorrect/incomplete", "data", "found", "in",
                               "relation", "mysql", ".", "See", "logs">>),
               EmptyDbData, <<"_get_mysql_data", "read_mysql_data">>)

\* _get_mysql_data from the relation found on.
MysqlDataOf(relation, my) ==
    IF relation.exc # "none"
    THEN Raise(relation.exc, NoStatus, EmptyDbData, <<"_get_mysql_data">>)
    ELSE IF ~my.units
    THEN \* next(iter(relation.units)) raises StopIteration, relation_data is {}
         Raise("GenericCharmRuntimeError", NoStatus, EmptyDbData, <<"_get_mysql_data">>)
    ELSE IF MysqlMissing(my.data) = {}
    THEN Return([db_name |-> MysqlValue("database"),
                 db_password |-> MysqlValue("root_password"),
                 db_username |-> "root",
                 db_host |-> MysqlValue("host"),
                 db_port |-> MysqlValue("port")],
                <<"_get_mysql_data", "read_mysql_data">>)
    ELSE IF my.data = {}
    THEN \* KeyError and "not relation_data"
         Raise("GenericCharmRuntimeError", NoStatus, EmptyDbData,
               <<"_get_mysql_data", "read_mysql_data">>)
    ELSE \* KeyError on the first missing key
         Raise("ErrorWithStatus",
               WaitingStatus(<<"Incorrect/incomplete", "data", "found", "in",
                               "relation", "mysql", ".", "See", "logs">>),
               EmptyDbData, <<"_get_mysql_data", "read_mysql_data">>)

_get_mysql_data(my, rdb) == MysqlDataOf(_get_db_relation("mysql", my, rdb), my)

\* str.split(":") on a sequence of characters.
RECURSIVE SplitFrom(_, _, _, _)
SplitFrom(s, i, cur, acc) ==
    IF i > Len(s) THEN Append(acc, cur)
    ELSE IF s[i] = ":" THEN SplitFrom(s, i + 1, "", Append(acc, cur))
    ELSE SplitFrom(s, i + 1, cur \o s[i], acc)

Split(s) == SplitFrom(s, 1, "", <<>>)

\* self._database_name
DatabaseName == "mlpipeline"

\* The keys of RdbRequiredKeys the library's record lacks, by position.
RdbMissing(val) == {i \in DOMAIN RdbRequiredKeys : RdbRequiredKeys[i] \notin val}

\* host, port = val["endpoints"].split(":")
EndpointsOf(parts) ==
    IF Len(parts) # 2
    THEN Raise("ValueError", NoStatus, EmptyDbData,
               <<"_get_relational_db_data", "fetch_relation_data">>)
    ELSE Return([db_name |-> DatabaseName,
                 db_password |-> RdbValue("password"),
                 db_username |-> RdbValue("username"),
                 db_host |-> parts[1],
                 db_port |-> parts[2]],
                <<"_get_relational_db_data", "fetch_relation_data">>)

\* _get_relational_db_data from the relation found on.
RelationalDbDataOf(relation, rdb) ==
    IF relation.exc # "none"
    THEN Raise(relation.exc, NoStatus, EmptyDbData, <<"_get_relational_db_data">>)
    ELSE IF rdb.keys = {}
    THEN \* the loop skips the empty value and db_data stays empty
         Raise("ErrorWithStatus",
               WaitingStatus(<<"Waiting", "for", "relational-db", "data">>),
               EmptyDbData, <<"_get_relational_db_data", "fetch_relation_data">>)
    ELSE IF RdbMissing(rdb.keys) # {}
    THEN Raise("ErrorWithStatus",
               WaitingStatus(<<"Incorrect/incomplete", "data", "found", "in",
                               "relation", "relational-db", ".", "See", "logs">>),
               EmptyDbData, <<"_get_relational_db_data", "fetch_relation_data">>)
    ELSE EndpointsOf(Split(rdb.endpoints))

_get_relational_db_data(my, rdb) ==
    RelationalDbDataOf(_get_db_relation("relational-db", my, rdb), rdb)

\* The except GenericCharmRuntimeError branch of _get_db_data, with the log
\* of the legacy attempt before it.
ModernAfter(legacy_log, modern) ==
    IF modern.exc = "GenericCharmRuntimeError"
    THEN Raise("ErrorWithStatus",
               BlockedStatus(<<"Please", "add", "required", "database", "relation",
                               ":", "eg", ".", "relational-db">>),
               EmptyDbData, legacy_log \o modern.log)
    ELSE [modern EXCEPT !.log = legacy_log \o @]

\* _get_db_data from the result of _get_mysql_data on.
DbDataOf(legacy, my, rdb) ==
    IF legacy.exc # "GenericCharmRuntimeError"
    THEN legacy
    ELSE ModernAfter(legacy.log, _get_relational_db_data(my, rdb))

_get_db_data(my, rdb) == DbDataOf(_get_mysql_data(my, rdb), my, rdb)

-----------------------------------------------------------------------------
(* Interfaces and their validation: _get_interfaces .. _get_viz *)

\* The first record of a valid object-storage relation.
ObjectStorageData ==
    [access_key |-> "minio-access", namespace |-> "kubeflow", port |-> 9000,
     secret_key |-> "minio-secret", secure |-> FALSE, service |-> "minio"]
\* The first record of a valid kfp-viz relation.
VizData == [service_name |-> "kfp-viz", service_port |-> "8888"]
\* The value of a failed validation.
NoData == [none |-> TRUE]

\* get_interfaces(self) and the three classes of error it is caught for.
\* The value is the interfaces dict: what each relation's entry holds.
NoInterfaces == [object_storage |-> "absent", kfp_viz |-> "absent", kfp_api |-> FALSE]

_get_interfaces(neg, os, viz, api) ==
    CASE neg = "NoVersionsListed" ->
           Raise("ErrorWithStatus", WaitingStatus(<<"No", "versions", "listed">>),
                 NoInterfaces, <<"_get_interfaces">>)
      [] neg = "NoCompatibleVersions" ->
           Raise("ErrorWithStatus", BlockedStatus(<<"No", "compatible", "versions">>),
                 NoInterfaces, <<"_get_interfaces">>)
      [] neg = "RelationDataError" ->
           Raise("ErrorWithStatus", BlockedStatus(<<"Relation", "data", "error">>),
                 NoInterfaces, <<"_get_interfaces">>)
      [] OTHER ->
           Return([object_storage |-> os, kfp_viz |-> viz, kfp_api |-> api],
                  <<"_get_interfaces">>)

\* _validate_sdi_interface with Waiting for an empty first record.
_validate_sdi_interface_empty_waits(entry, relation_name, data) ==
    CASE entry = "absent" ->
           Raise("ErrorWithStatus",
                 BlockedStatus(<<"Please", "add", "required", "relation", relation_name>>),
                 NoData, <<>>)
      [] entry = "not_sdi" ->
           Raise("ErrorWithStatus",
                 BlockedStatus(<<"Unexpected", "error", "with", relation_name, "relation",
                                 "data", "-", "data", "not", "as", "expected">>),
                 NoData, <<>>)
      [] entry = "invalid" ->
           Raise("ErrorWithStatus",
                 BlockedStatus(<<"Found", "incomplete/incorrect", "relation", "data", "for",
                                 relation_name, ".", "See", "logs">>),
                 NoData, <<>>)
      [] entry \in {"no_data", "empty"} ->
           Raise("ErrorWithStatus",
                 WaitingStatus(<<"Waiting", "for", relation_name, "relation", "data">>),
                 NoData, <<>>)
      [] OTHER -> Return(data, <<>>)

\* entry is interfaces[relation_name], data the first record of its data
\* when there is one.  default_return is never passed by the charm.
_validate_sdi_interface(entry, relation_name, data) ==
    CASE entry = "absent" ->
           Raise("ErrorWithStatus",
                 BlockedStatus(<<"Please", "add", "required", "relation", relation_name>>),
                 NoData, <<>>)
      [] entry = "not_sdi" ->
           Raise("ErrorWithStatus",
                 BlockedStatus(<<"Unexpected", "error", "with", relation_name, "relation",
                                 "data", "-", "data", "not", "as", "expected">>),
                 NoData, <<>>)
      [] entry = "invalid" ->
           Raise("ErrorWithStatus",
                 BlockedStatus(<<"Found", "incomplete/incorrect", "relation", "data", "for",
                                 relation_name, ".", "See", "logs">>),
                 NoData, <<>>)
      [] entry = "no_data" ->
           Raise("ErrorWithStatus",
                 WaitingStatus(<<"Waiting", "for", relation_name, "relation", "data">>),
                 NoData, <<>>)
      [] entry = "empty" ->
           Raise("ErrorWithStatus",
                 BlockedStatus(<<"Found", "empty", "relation", "data", "for", relation_name>>),
                 NoData, <<>>)
      [] OTHER -> Return(data, <<>>)

_get_object_storage(interfaces) ==
    Chain(<<"_get_object_storage">>,
          _validate_sdi_interface(interfaces.object_storage, "object-storage",
                                  ObjectStorageData))

_get_viz(interfaces) ==
    Chain(<<"_get_viz">>, _validate_sdi_interface(interfaces.kfp_viz, "kfp-viz", VizData))

-----------------------------------------------------------------------------
(* The configuration document: _generate_config *)

\* str() of a natural number.
Digits == <<"0", "1", "2", "3", "4", "5", "6", "7", "8", "9">>
RECURSIVE Str(_)
Str(n) == IF n < 10 THEN Digits[n + 1] ELSE Str(n \div 10) \o Digits[(n % 10) + 1]

\* str(b).lower() of a boolean.
LowerStr(b) == IF b THEN "true" ELSE "false"

\* self.model.config: the options _generate_config reads, at fixed values.
ModelConfig ==
    [object_store_bucket_name |-> "mlpipeline", log_archive_filename |-> "main.log",
     log_archive_prefix |-> "/artifacts", auto_update_default_version |-> TRUE,
     cache_image |-> "gcr.io/google-containers/busybox", cache_enabled |-> TRUE,
     runner_sa |-> "default-editor", init_connection_timeout |-> "6m",
     http_port |-> "8888"]

\* The document built once db_data, os and viz are all there.
ConfigJson(db_data, os, viz) ==
    [DBConfig |->
        [ConMaxLifeTime |-> "120s",
         DBName |-> db_data.db_name,
         DriverName |-> "mysql",
         GroupConcatMaxLen |-> "4194304",
         Host |-> db_data.db_host,
         Password |-> db_data.db_password,
         Port |-> db_data.db_port,
         User |-> db_data.db_username],
     ObjectStoreConfig |->
        [AccessKey |-> os.access_key,
         BucketName |-> ModelConfig.object_store_bucket_name,
         Host |-> os.service \o "." \o os.namespace,
         Multipart |-> [Disable |-> "true"],
         PipelinePath |-> "pipelines",
         Port |-> Str(os.port),
         Region |-> "",
         SecretAccessKey |-> os.secret_key,
         Secure |-> LowerStr(os.secure)],
     ARCHIVE_CONFIG_LOG_FILE_NAME |-> ModelConfig.log_archive_filename,
     ARCHIVE_CONFIG_LOG_PATH_PREFIX |-> ModelConfig.log_archive_prefix,
     AUTO_UPDATE_PIPELINE_DEFAULT_VERSION |-> LowerStr(ModelConfig.auto_update_default_version),
     CACHE_IMAGE |-> ModelConfig.cache_image,
     CACHE_NODE_RESTRICTIONS |-> "false",
     CacheEnabled |-> LowerStr(ModelConfig.cache_enabled),
     DefaultPipelineRunnerServiceAccount |-> ModelConfig.runner_sa,
     InitConnectionTimeout |-> ModelConfig.init_connection_timeout,
     KUBEFLOW_USERID_HEADER |-> "kubeflow-userid",
     KUBEFLOW_USERID_PREFIX |-> "",
     MULTIUSER |-> "true",
     ML_PIPELINE_VISUALIZATIONSERVER_SERVICE_HOST |-> viz.service_name,
     ML_PIPELINE_VISUALIZATIONSERVER_SERVICE_PORT |-> viz.service_port]

\* No document: the content of config.json before the first push.
NoConfig == [none |-> TRUE]

\* ConfigAfterViz that builds the document around a failed kfp-viz record.
ConfigAfterViz_default_viz(db_data, os_data, viz) ==
    IF viz.exc # "none"
    THEN Return(ConfigJson(db_data, os_data,
                           [service_name |-> "", service_port |-> ""]), viz.log)
    ELSE Return(ConfigJson(db_data, os_data, viz.val), viz.log)

ConfigAfterViz(db_data, os_data, viz) ==
    IF viz.exc # "none" THEN Raise(viz.exc, viz.err, NoConfig, viz.log)
    ELSE Return(ConfigJson(db_data, os_data, viz.val), viz.log)

ConfigAfterOs(db_data, os, interfaces) ==
    IF os.exc # "none" THEN Raise(os.exc, os.err, NoConfig, os.log)
    ELSE ConfigAfterViz(db_data, os.val, Chain(os.log, _get_viz(interfaces)))

ConfigAfterDb(db, interfaces) ==
    IF db.exc # "none" THEN Raise(db.exc, db.err, NoConfig, db.log)
    ELSE ConfigAfterOs(db.val, Chain(db.log, _get_object_storage(interfaces)), interfaces)

\* _generate_config with object-storage read before db_data.
_generate_config_os_first(interfaces, my, rdb) ==
    IF _get_object_storage(interfaces).exc # "none"
    THEN Raise(_get_object_storage(interfaces).exc, _get_object_storage(interfaces).err,
               NoConfig, <<"_generate_config">> \o _get_object_storage(interfaces).log)
    ELSE ConfigAfterDb(Chain(<<"_generate_config">>, _get_db_data(my, rdb)), interfaces)

\* db_data first, then object-storage, then kfp-viz.
_generate_config(interfaces, my, rdb) ==
    ConfigAfterDb(Chain(<<"_generate_config">>, _get_db_data(my, rdb)), interfaces)

-----------------------------------------------------------------------------
(* The steps of a hook *)

\* What a handler works on: the status, the container's files, the cluster
\* resources, and the steps taken so far in this hook.
\* pass is the status _on_event left when it returned in this hook.
Machine ==
    [status |-> status, files |-> files, resources |-> resources,
     steps |-> <<>>, pass |-> NoStatus]

\* A handler or a step of one ends normally or raises.
Done(m) == [m |-> m, exc |-> "none", err |-> NoStatus]
Fail(m, exc, st) == [m |-> m, exc |-> exc, err |-> st]

Log(m, entries) == [m EXCEPT !.steps = @ \o entries]
SetStatus(m, st) == [m EXCEPT !.status = st]

\* The result r of a step unless it raised, and then next of its machine.
Then(r, next(_)) == IF r.exc # "none" THEN r ELSE next(r.m)

\* _check_leader that lets every unit pass.
_check_leader_any_unit(m) == Done(Log(m, <<"_check_leader">>))

_check_leader(m) ==
    IF ~is_leader
    THEN Fail(Log(m, <<"_check_leader">>), "ErrorWithStatus",
              WaitingStatus(<<"Waiting", "for", "leadership">>))
    ELSE Done(Log(m, <<"_check_leader">>))

_check_container_connection(m) ==
    IF ~can_connect
    THEN Fail(Log(m, <<"_check_container_connection">>), "ErrorWithStatus",
              MaintenanceStatus(<<"Pod", "startup", "is", "not", "complete">>))
    ELSE Done(Log(m, <<"_check_container_connection">>))

\* The two pushes of _upload_files_to_container.
PushFiles(m, config_json) ==
    Done([Log(m, <<"push_sample_config", "push_config">>)
            EXCEPT !.files = [sample |-> TRUE, config |-> config_json]])

\* UploadAfterCheck that pushes whatever the connection check found.
UploadAfterCheck_push_anyway(c, config_json) == PushFiles(c.m, config_json)

\* A failed connection check is written to the status before it is raised
\* again.
UploadAfterCheck(c, config_json) ==
    IF c.exc # "none"
    THEN Fail(SetStatus(c.m, c.err), c.exc, c.err)
    ELSE PushFiles(c.m, config_json)

_upload_files_to_container(m, config_json) ==
    UploadAfterCheck(_check_container_connection(m), config_json)

\* error.status.code == 409
_check_and_report_k8s_conflict(answer) == answer \in {"conflict", "conflict_unforceable"}

\* Created that fails when the resources exist already.
Created_once(m) ==
    IF m.resources = "applied"
    THEN Fail(m, "ApiError", NoStatus)
    ELSE Done(SetStatus([m EXCEPT !.resources = "applied"],
                        MaintenanceStatus(<<"K8S", "resources", "created">>)))

\* The last statement of _apply_k8s_resources.
Created(m) ==
    Done(SetStatus([m EXCEPT !.resources = "applied"],
                   MaintenanceStatus(<<"K8S", "resources", "created">>)))

\* The branch of the except block that applies again with force.
ForceApply(m) ==
    IF k8s_api = "conflict"
    THEN Created(Log(SetStatus(m, MaintenanceStatus(<<"Force", "applying", "K8S",
                                                      "resources">>)),
                     <<"apply_force">>))
    ELSE Fail(Log(SetStatus(m, MaintenanceStatus(<<"Force", "applying", "K8S",
                                                   "resources">>)),
                  <<"apply_force">>),
              "ApiError", NoStatus)

\* Apply that forces on every conflict, asked for or not.
Apply_force_any_conflict(m, force_conflicts) ==
    IF k8s_api = "ok" THEN Created(m)
    ELSE IF _check_and_report_k8s_conflict(k8s_api) THEN ForceApply(m)
    ELSE Fail(m, "GenericCharmRuntimeError", NoStatus)

\* Apply that gives a failed apply a Blocked status to carry.
Apply_failure_as_status(m, force_conflicts) ==
    IF k8s_api = "ok" THEN Created(m)
    ELSE IF _check_and_report_k8s_conflict(k8s_api) /\ force_conflicts THEN ForceApply(m)
    ELSE Fail(m, "ErrorWithStatus",
              BlockedStatus(<<"K8S", "resources", "creation", "failed">>))

\* _apply_k8s_resources from the first apply() on.
Apply(m, force_conflicts) ==
    IF k8s_api = "ok" THEN Created(m)
    ELSE IF _check_and_report_k8s_conflict(k8s_api) /\ force_conflicts THEN ForceApply(m)
    ELSE Fail(m, "GenericCharmRuntimeError", NoStatus)

_apply_k8s_resources(m, force_conflicts) ==
    Apply(Log(SetStatus(m, MaintenanceStatus(<<"Creating", "K8S", "resources">>)),
              <<"apply">>),
          force_conflicts)

\* update_layer of charmed_kubeflow_chisme: a failed replan is an
\* ErrorWithStatus.
update_layer(m) ==
    IF replan = "ok" THEN Done(Log(m, <<"update_layer">>))
    ELSE Fail(Log(m, <<"update_layer">>), "ErrorWithStatus",
              BlockedStatus(<<"Failed", "to", "replan">>))

_send_info(m, interfaces) ==
    IF interfaces.kfp_api
    THEN Done(Log(m, <<"_send_info", "send_data">>))
    ELSE Done(Log(m, <<"_send_info">>))

\* PipelineAfterConfig with the apply before the upload.
PipelineAfterConfig_apply_first(m, interfaces, config_json, force_conflicts) ==
    Then(Then(Then(_apply_k8s_resources(m, force_conflicts),
                   LAMBDA m1 : _upload_files_to_container(m1, config_json)),
              LAMBDA m2 : update_layer(m2)),
         LAMBDA m3 : _send_info(m3, interfaces))

\* The try block of _on_event once config_json is generated.
PipelineAfterConfig(m, interfaces, config_json, force_conflicts) ==
    Then(Then(Then(_upload_files_to_container(m, config_json),
                   LAMBDA m1 : _apply_k8s_resources(m1, force_conflicts)),
              LAMBDA m2 : update_layer(m2)),
         LAMBDA m3 : _send_info(m3, interfaces))

\* The try block of _on_event from _generate_config on.
PipelineConfig(m, interfaces, config_json, force_conflicts) ==
    IF config_json.exc # "none"
    THEN Fail(Log(m, config_json.log), config_json.exc, config_json.err)
    ELSE PipelineAfterConfig(Log(m, config_json.log), interfaces, config_json.val,
                             force_conflicts)

\* The try block of _on_event from _get_interfaces on.
PipelineInterfaces(m, interfaces, force_conflicts) ==
    IF interfaces.exc # "none"
    THEN Fail(Log(m, interfaces.log), interfaces.exc, interfaces.err)
    ELSE PipelineConfig(Log(m, interfaces.log), interfaces.val,
                        _generate_config(interfaces.val, mysql, relational_db),
                        force_conflicts)

\* The try block of _on_event.
Pipeline(m, force_conflicts) ==
    Then(_check_leader(m),
         LAMBDA m1 : PipelineInterfaces(
                        m1, _get_interfaces(negotiation, object_storage, kfp_viz, kfp_api),
                        force_conflicts))

\* Caught that logs the ErrorWithStatus and goes on to the last statement.
Caught_no_return(body) ==
    IF body.exc \notin {"none", "ErrorWithStatus"} THEN body
    ELSE IF body.exc = "ErrorWithStatus"
    THEN Done([Log(SetStatus(body.m, ActiveStatus), <<"return", "ActiveStatus">>)
                 EXCEPT !.pass = ActiveStatus])
    ELSE Done([Log(SetStatus(body.m, ActiveStatus), <<"ActiveStatus">>)
                 EXCEPT !.pass = ActiveStatus])

\* The except clause of _on_event and its last statement: an ErrorWithStatus
\* becomes the status, any other exception leaves the handler.
Caught(body) ==
    IF body.exc = "ErrorWithStatus"
    THEN Done([Log(SetStatus(body.m, body.err), <<"return">>) EXCEPT !.pass = body.err])
    ELSE IF body.exc # "none" THEN body
    ELSE Done([Log(SetStatus(body.m, ActiveStatus), <<"ActiveStatus">>)
                 EXCEPT !.pass = ActiveStatus])

_on_event(m, force_conflicts) == Caught(Pipeline(Log(m, <<"_on_event">>), force_conflicts))

-----------------------------------------------------------------------------
(* The handlers *)

\* _on_install that runs the pipeline.
_on_install_pipeline(m) == _on_event(m, FALSE)

_on_install(m) == _apply_k8s_resources(m, FALSE)

_on_upgrade(m) == _on_event(m, TRUE)

\* answer is how the API answers delete_many: "ok", "not_found" (404) or
\* "error" (any other ApiError).
DeleteChoices == {"ok", "not_found", "error"}

\* _on_remove that raises every ApiError again, 404 included.
_on_remove_404_fatal(m, answer) ==
    IF answer # "ok"
    THEN Fail(Log(SetStatus(m, MaintenanceStatus(<<"Removing", "K8S", "resources">>)),
                  <<"render_manifests", "delete_many", "ApiError">>
                  \o (IF answer = "not_found" THEN <<"404">> ELSE <<>>)),
              "ApiError", NoStatus)
    ELSE Done(SetStatus([Log(m, <<"render_manifests", "delete_many">>)
                           EXCEPT !.resources = "absent"],
                        MaintenanceStatus(<<"K8S", "resources", "removed">>)))

\* The log tells an ApiError of delete_many and its 404 from a plain return.
_on_remove(m, answer) ==
    IF answer = "error"
    THEN Fail(Log(SetStatus(m, MaintenanceStatus(<<"Removing", "K8S", "resources">>)),
                  <<"render_manifests", "delete_many", "ApiError">>),
              "ApiError", NoStatus)
    ELSE IF answer = "not_found"
    THEN Done(SetStatus([Log(m, <<"render_manifests", "delete_many", "ApiError", "404">>)
                           EXCEPT !.resources = "absent"],
                        MaintenanceStatus(<<"K8S", "resources", "removed">>)))
    ELSE Done(SetStatus([Log(m, <<"render_manifests", "delete_many">>)
                           EXCEPT !.resources = "absent"],
                        MaintenanceStatus(<<"K8S", "resources", "removed">>)))

\* container.get_check("kfp-api-up") and what follows it.  get_check asks
\* Pebble anew, some time after container.can_connect() did: Pebble may have
\* come up, or gone away, in between, so its answer is a part of the
\* environment of its own.  An unreachable Pebble is a ConnectionError; a
\* check the plan does not have is a ModelError.
GetCheck(m) ==
    IF check = "unreachable" THEN Fail(m, "ConnectionError", NoStatus)
    ELSE IF check = "missing" THEN Fail(m, "GenericCharmRuntimeError", NoStatus)
    ELSE IF check = "down"
    THEN Fail(m, "ErrorWithStatus",
              MaintenanceStatus(<<"Workload", "failed", "health", "check">>))
    ELSE Done(Log(SetStatus(m, ActiveStatus), <<"ActiveStatus">>))

_check_status(m) ==
    Then(_check_leader(Log(m, <<"_check_status">>)),
         LAMBDA m1 : GetCheck(Log(m1, <<"get_check">>)))

\* UpdateStatusChecked that sets Active whatever _check_status raised.
UpdateStatusChecked_ignore(checked) ==
    IF checked.exc \notin {"none", "ErrorWithStatus"} THEN checked
    ELSE Done(Log(SetStatus(checked.m, ActiveStatus), <<"ActiveStatus">>))

\* _on_update_status from the result of _check_status on.
UpdateStatusChecked(checked) ==
    IF checked.exc = "ErrorWithStatus" THEN Done(SetStatus(checked.m, checked.err))
    ELSE IF checked.exc # "none" THEN checked
    ELSE Done(Log(SetStatus(checked.m, ActiveStatus), <<"ActiveStatus">>))

\* UpdateStatusAfter that runs _check_status after every pass that returned.
UpdateStatusAfter_always_check(pass) ==
    IF pass.exc = "ErrorWithStatus" THEN Done(pass.m)
    ELSE IF pass.exc # "none" THEN pass
    ELSE UpdateStatusChecked(_check_status(pass.m))

\* _on_update_status from the result of _on_event on.
UpdateStatusAfter(pass) ==
    IF pass.exc = "ErrorWithStatus" THEN Done(pass.m)
    ELSE IF pass.exc # "none" THEN pass
    ELSE IF pass.m.status.name \in {"waiting", "blocked"} THEN Done(pass.m)
    ELSE UpdateStatusChecked(_check_status(pass.m))

\* _on_update_status that checks the workload without a pass of the pipeline.
_on_update_status_check_only(m) == UpdateStatusChecked(_check_status(m))

_on_update_status(m) == UpdateStatusAfter(_on_event(m, FALSE))

\* The status the two database handlers set when the other relation exists.
UnblockStatus == BlockedStatus(UNBLOCK_MESSAGE \o <<"See", "logs">>)

\* A database handler from its look for the other relation on: Blocked when
\* it exists, else the status adding and _on_event.
OtherRelation(m, relation, adding) ==
    IF relation.exc # "none" THEN Fail(m, relation.exc, NoStatus)
    ELSE IF relation.have THEN Done(SetStatus(m, UnblockStatus))
    ELSE _on_event(SetStatus(m, adding), FALSE)

_on_mysql_relation(m) ==
    IF mysql.count > 1
    THEN Fail(m, "ErrorWithStatus",
              BlockedStatus(<<"Too", "many", "mysql", "relations", ".">> \o MYSQL_WARNING))
    ELSE OtherRelation(m, get_relation("relational-db", mysql, relational_db),
                       MaintenanceStatus(<<"Adding", "mysql", "relation", ".">>
                                         \o MYSQL_WARNING))

_on_mysql_relation_remove(m) ==
    _on_event(SetStatus(m, MaintenanceStatus(<<"Removing", "mysql", "relation", ".">>
                                             \o MYSQL_WARNING)), FALSE)

_on_relational_db_relation(m) ==
    OtherRelation(m, get_relation("mysql", mysql, relational_db),
                  MaintenanceStatus(<<"Adding", "relational-db", "relation">>))

_on_relational_db_relation_remove(m) ==
    _on_event(SetStatus(m, MaintenanceStatus(<<"Removing", "relational-db", "relation">>)),
              FALSE)

-----------------------------------------------------------------------------
(* The environment of a healthy deployment, and how far a state is from it *)

HealthyMysql == OneMysql(TRUE, MysqlRequired)

Degraded ==
      (IF is_leader THEN 0 ELSE 1)
    + (IF mysql = HealthyMysql THEN 0 ELSE 1)
    + (IF relational_db = NoRdb THEN 0 ELSE 1)
    + (IF negotiation = "ok" THEN 0 ELSE 1)
    + (IF object_storage = "valid" THEN 0 ELSE 1)
    + (IF kfp_viz = "valid" THEN 0 ELSE 1)
    + (IF kfp_api THEN 0 ELSE 1)
    + (IF can_connect THEN 0 ELSE 1)
    + (IF k8s_api = "ok" THEN 0 ELSE 1)
    + (IF replan = "ok" THEN 0 ELSE 1)
    + (IF check = "up" THEN 0 ELSE 1)

-----------------------------------------------------------------------------
(* The state machine *)

NoFiles == [sample |-> FALSE, config |-> NoConfig]
NoHook == [handler |-> "none", steps |-> <<>>, exc |-> "none", pass |-> NoStatus]

\* The values of a part of the environment in a state where the parts in
\* away are away from a healthy deployment.
Part(away, name, healthy, choices) ==
    IF name \in away THEN choices \ {healthy} ELSE {healthy}

EnvParts ==
    {"is_leader", "mysql", "relational_db", "negotiation", "object_storage", "kfp_viz",
     "kfp_api", "can_connect", "k8s_api", "replan", "check"}

\* A unit that has run no hook yet, in any environment within the bound.
Init ==
    /\ \E away \in {a \in SUBSET EnvParts : Cardinality(a) <= MaxDegraded} :
        /\ is_leader \in Part(away, "is_leader", TRUE, BOOLEAN)
        /\ mysql \in Part(away, "mysql", HealthyMysql, MysqlSamples)
        /\ relational_db \in Part(away, "relational_db", NoRdb, RdbSamples)
        /\ negotiation \in Part(away, "negotiation", "ok", NegotiationChoices)
        /\ object_storage \in Part(away, "object_storage", "valid", InterfaceChoices)
        /\ kfp_viz \in Part(away, "kfp_viz", "valid", InterfaceChoices)
        /\ kfp_api \in Part(away, "kfp_api", TRUE, BOOLEAN)
        /\ can_connect \in Part(away, "can_connect", TRUE, BOOLEAN)
        /\ k8s_api \in Part(away, "k8s_api", "ok", K8sChoices)
        /\ replan \in Part(away, "replan", "ok", {"ok", "fail"})
        /\ check \in Part(away, "check", "up", CheckChoices)
    /\ status = UnknownStatus
    /\ files = NoFiles
    /\ resources = "absent"
    /\ last = NoHook

\* install is the first hook of a unit: no handler has written the status
\* before it, and every handler that runs writes it.
Installed == status # UnknownStatus

\* The unit is gone once its remove hook has run.
Alive == last.handler # "_on_remove"

\* One hook: the handler's result becomes the state.
Hook(handler, r) ==
    /\ Alive
    /\ handler # "_on_install" => Installed
    /\ status' = r.m.status
    /\ files' = r.m.files
    /\ resources' = r.m.resources
    /\ last' = [handler |-> handler, steps |-> r.m.steps, exc |-> r.exc, pass |-> r.m.pass]
    /\ UNCHANGED envVars

\* The events the charm observes with _on_event itself.
PipelineEvents ==
    {"leader_elected", "config_changed", "ml_pipeline_api_server_pebble_ready",
     "object_storage_relation_changed", "kfp_viz_relation_changed",
     "kfp_api_relation_changed"}

OnEvent == \E event \in PipelineEvents : Hook("_on_event", _on_event(Machine, FALSE))

OnInstall == ~Installed /\ Hook("_on_install", _on_install(Machine))

OnUpgrade == Hook("_on_upgrade", _on_upgrade(Machine))

OnRemove == \E answer \in DeleteChoices : Hook("_on_remove", _on_remove(Machine, answer))

OnUpdateStatus == Hook("_on_update_status", _on_update_status(Machine))

\* relation_joined and relation_changed of mysql
OnMysqlRelation ==
    mysql.count >= 1 /\ Hook("_on_mysql_relation", _on_mysql_relation(Machine))

\* relation_departed and relation_broken of mysql
OnMysqlRelationRemove ==
    Hook("_on_mysql_relation_remove", _on_mysql_relation_remove(Machine))

\* relation_joined and relation_changed of relational-db, database_created
\* and endpoints_changed of the library
OnRelationalDbRelation ==
    relational_db.present
    /\ Hook("_on_relational_db_relation", _on_relational_db_relation(Machine))

\* relation_departed and relation_broken of relational-db
OnRelationalDbRelationRemove ==
    Hook("_on_relational_db_relation_remove", _on_relational_db_relation_remove(Machine))

\* Between two hooks one part of the environment changes.  What last tells
\* of the hook before is then no longer about the environment of the state,
\* so it is cleared.
EnvChange(v, choices) ==
    /\ Alive
    /\ last # NoHook
    /\ v' \in choices \ {v}
    /\ last' = NoHook
    /\ UNCHANGED <<status, files, resources>>

LeaderChange ==
    /\ EnvChange(is_leader, BOOLEAN)
    /\ UNCHANGED <<mysql, relational_db, negotiation, object_storage, kfp_viz, kfp_api,
                   can_connect, k8s_api, replan, check>>
    /\ Degraded' <= MaxDegraded

MysqlChange ==
    /\ EnvChange(mysql, MysqlSamples)
    /\ UNCHANGED <<is_leader, relational_db, negotiation, object_storage, kfp_viz, kfp_api,
                   can_connect, k8s_api, replan, check>>
    /\ Degraded' <= MaxDegraded

RelationalDbChange ==
    /\ EnvChange(relational_db, RdbSamples)
    /\ UNCHANGED <<is_leader, mysql, negotiation, object_storage, kfp_viz, kfp_api,
                   can_connect, k8s_api, replan, check>>
    /\ Degraded' <= MaxDegraded

InterfacesChange ==
    /\ \/ EnvChange(negotiation, NegotiationChoices)
          /\ UNCHANGED <<object_storage, kfp_viz, kfp_api>>
       \/ EnvChange(object_storage, InterfaceChoices)
          /\ UNCHANGED <<negotiation, kfp_viz, kfp_api>>
       \/ EnvChange(kfp_viz, InterfaceChoices)
          /\ UNCHANGED <<negotiation, object_storage, kfp_api>>
       \/ EnvChange(kfp_api, BOOLEAN)
          /\ UNCHANGED <<negotiation, object_storage, kfp_viz>>
    /\ UNCHANGED <<is_leader, mysql, relational_db, can_connect, k8s_api, replan, check>>
    /\ Degraded' <= MaxDegraded

WorkloadChange ==
    /\ \/ EnvChange(can_connect, BOOLEAN) /\ UNCHANGED <<replan, check>>
       \/ EnvChange(replan, {"ok", "fail"}) /\ UNCHANGED <<can_connect, check>>
       \/ EnvChange(check, CheckChoices) /\ UNCHANGED <<can_connect, replan>>
    /\ UNCHANGED <<is_leader, mysql, relational_db, negotiation, object_storage, kfp_viz,
                   kfp_api, k8s_api>>
    /\ Degraded' <= MaxDegraded

ClusterChange ==
    /\ EnvChange(k8s_api, K8sChoices)
    /\ UNCHANGED <<is_leader, mysql, relational_db, negotiation, object_storage, kfp_viz,
                   kfp_api, can_connect, replan, check>>
    /\ Degraded' <= MaxDegraded

Next ==
    \/ OnEvent
    \/ OnInstall
    \/ OnUpgrade
    \/ OnRemove
    \/ OnUpdateStatus
    \/ OnMysqlRelation
    \/ OnMysqlRelationRemove
    \/ OnRelationalDbRelation
    \/ OnRelationalDbRelationRemove
    \/ LeaderChange
    \/ MysqlChange
    \/ RelationalDbChange
    \/ InterfacesChange
    \/ WorkloadChange
    \/ ClusterChange

Spec == Init /\ [][Next]_vars


-----------------------------------------------------------------------------
(* Database resolution over every data bag *)

\* The hooks alone, in an environment that does not change.
Hooks ==
    \/ OnEvent
    \/ OnInstall
    \/ OnUpgrade
    \/ OnRemove
    \/ OnUpdateStatus
    \/ OnMysqlRelation
    \/ OnMysqlRelationRemove
    \/ OnRelationalDbRelation
    \/ OnRelationalDbRelationRemove

\* Every mysql and relational-db relation of MysqlChoices and RdbChoices, on
\* a leader or not, in an otherwise healthy deployment.
InitDb ==
    /\ is_leader \in BOOLEAN
    /\ mysql \in MysqlChoices
    /\ relational_db \in RdbChoices
    /\ negotiation = "ok"
    /\ object_storage = "valid"
    /\ kfp_viz = "valid"
    /\ kfp_api = TRUE
    /\ can_connect = TRUE
    /\ k8s_api = "ok"
    /\ replan = "ok"
    /\ check = "up"
    /\ status = UnknownStatus
    /\ files = NoFiles
    /\ resources = "absent"
    /\ last = NoHook

SpecDb == InitDb /\ [][Hooks]_vars

-----------------------------------------------------------------------------
(* What the last hook did *)

Ran(step) == \E i \in DOMAIN last.steps : last.steps[i] = step

\* The last hook ran _on_event and _on_event returned.
PassEnded == Ran("_on_event") /\ last.pass # NoStatus

\* The handlers that run the pipeline.
PipelineHandlers ==
    {"_on_event", "_on_upgrade", "_on_update_status", "_on_mysql_relation",
     "_on_mysql_relation_remove", "_on_relational_db_relation",
     "_on_relational_db_relation_remove"}

Pushed == Ran("push_sample_config") \/ Ran("push_config")
AppliedInHook == Ran("apply") \/ Ran("apply_force")

BothPresent == mysql.count >= 1 /\ relational_db.present

-----------------------------------------------------------------------------
(* C1: the two database relations exclude each other *)

\* C1, as the specification states it: while the mysql and the relational-db
\* relation are both present, every hook that runs the pipeline to completion
\* leaves the status Blocked with the fixed conflict message, and the status
\* such a hook leaves is never Active.
C1_BothRelationsBlocked ==
    (BothPresent /\ last.handler \in PipelineHandlers /\ last.exc = "none")
        => (status = UnblockStatus /\ status.name # "active")

-----------------------------------------------------------------------------
(* C2: a database-relation trigger with the other relation present *)

\* The last hook is a joined/changed trigger of one database relation and the
\* other database relation is present.
OtherPresentAtTrigger ==
    \/ last.handler = "_on_mysql_relation" /\ relational_db.present
    \/ last.handler = "_on_relational_db_relation" /\ mysql.count >= 1

\* The handler set Blocked with the deprecation and unblock message and
\* returned without invoking the pipeline.
BlockedWithoutPipeline ==
    /\ last.exc = "none"
    /\ status.name = "blocked"
    /\ Contains(status.message, <<"deprecated">>)
    /\ Contains(status.message, <<"unblock">>)
    /\ ~Ran("_on_event")
    /\ last.steps = <<>>

\* C2, as the specification states it: on a joined/changed trigger of either
\* database relation with the other database relation present, the handler
\* sets Blocked with a message containing "deprecated" and "unblock" and
\* returns without invoking the pipeline.
C2_OtherRelationBlocks == OtherPresentAtTrigger => BlockedWithoutPipeline

-----------------------------------------------------------------------------
(* C3: the mysql relation with required keys missing *)

\* The mysql relation alone, with a peer unit whose data lacks at least one
\* required key, and a pass of the pipeline that got to resolve the database.
LegacyIncomplete ==
    /\ mysql.count = 1
    /\ mysql.units
    /\ ~relational_db.present
    /\ MysqlMissing(mysql.data) # {}
    /\ PassEnded
    /\ Ran("_get_mysql_data")

IncompleteMysqlStatus ==
    WaitingStatus(<<"Incorrect/incomplete", "data", "found", "in", "relation",
                    "mysql", ".", "See", "logs">>)

ResolutionWaits ==
    /\ _get_db_data(mysql, relational_db).exc = "ErrorWithStatus"
    /\ _get_db_data(mysql, relational_db).err.name = "waiting"
    /\ last.pass.name = "waiting"
    /\ status.name = "waiting"

-----------------------------------------------------------------------------
(* C4: no database relation *)

\* A pass of the pipeline on a leader whose interfaces were negotiated, with
\* neither database relation.
NoDatabaseRelation ==
    /\ is_leader
    /\ negotiation = "ok"
    /\ mysql.count = 0
    /\ ~relational_db.present
    /\ Ran("_on_event")

\* C4: on a leader unit whose interface negotiation succeeded, with neither
\* database relation present, every pass of the pipeline ends with status
\* Blocked and a message containing "database relation", and pushes or
\* applies nothing, whatever the state of the object-storage data, the
\* kfp-viz data and the container.
C4_NoDatabaseBlocked ==
    NoDatabaseRelation
        => (/\ last.exc = "none"
            /\ last.pass.name = "blocked"
            /\ Contains(last.pass.message, <<"database", "relation">>)
            /\ status = last.pass
            /\ ~Pushed
            /\ ~AppliedInHook
            /\ ~Ran("_get_object_storage")
            /\ ~Ran("_check_container_connection"))

\* The object-storage relation is missing too.
C4_Witness ==
    /\ NoDatabaseRelation
    /\ last.handler = "_on_event"
    /\ object_storage = "absent"
    /\ status.name = "blocked"
    /\ Contains(status.message, <<"database", "relation">>)

-----------------------------------------------------------------------------
(* C5: the mysql relation alone, with complete data *)

LegacyComplete ==
    /\ mysql.count = 1
    /\ mysql.units
    /\ MysqlMissing(mysql.data) = {}
    /\ ~relational_db.present

\* The record of the peer's values with the user name "root".
LegacyRecord ==
    [db_name |-> "peer_db", db_password |-> "peer_root_password",
     db_username |-> "root", db_host |-> "peer_host", db_port |-> "peer_port"]

ResolvesLegacy ==
    /\ _get_db_data(mysql, relational_db).exc = "none"
    /\ _get_db_data(mysql, relational_db).val = LegacyRecord

\* The apply of the last hook succeeds: the API accepts it, or the hook
\* forces a conflict the API lets it force.
ApplySucceeds ==
    \/ k8s_api = "ok"
    \/ k8s_api = "conflict" /\ last.handler = "_on_upgrade"

\* A pass on a leader with valid object-storage and kfp-viz data, a
\* reachable container and a successful apply.
LegacyPass ==
    /\ LegacyComplete
    /\ is_leader
    /\ negotiation = "ok"
    /\ object_storage = "valid"
    /\ kfp_viz = "valid"
    /\ can_connect
    /\ ApplySucceeds
    /\ Ran("_on_event")

ActiveWithRoot ==
    /\ last.pass = ActiveStatus
    /\ files.config # NoConfig
    /\ files.config.DBConfig.User = "root"

-----------------------------------------------------------------------------
(* C6: a pass on a unit that is not the leader *)

LeadershipStatus == WaitingStatus(<<"Waiting", "for", "leadership">>)

\* The steps of the pipeline after the leadership check.
LaterSteps ==
    {"_get_interfaces", "_generate_config", "_get_mysql_data", "read_mysql_data",
     "_get_relational_db_data", "fetch_relation_data", "_get_object_storage",
     "_get_viz", "_check_container_connection", "push_sample_config",
     "push_config", "apply", "apply_force", "update_layer", "_send_info",
     "send_data"}

\* C6: in any pass of the pipeline on a unit that is not the leader, the pass
\* ends with status Waiting and none of the later steps run: no interface
\* fetch, no configuration generation or push, no resource apply, no layer
\* update, no peer notification.
C6_FollowerWaits ==
    (~is_leader /\ Ran("_on_event"))
        => (/\ last.exc = "none"
            /\ last.pass = LeadershipStatus
            /\ status = LeadershipStatus
            /\ \A i \in DOMAIN last.steps : last.steps[i] \notin LaterSteps)

\* A follower with files and resources of an earlier pass as leader.
C6_Witness ==
    /\ ~is_leader
    /\ last.handler = "_on_event"
    /\ status = LeadershipStatus
    /\ files.config # NoConfig
    /\ last.steps = <<"_on_event", "_check_leader", "return">>

-----------------------------------------------------------------------------
(* C7: cluster resources and leadership *)

\* C7, as the specification states it: for every trigger kind, install and
\* remove included, a unit that is not the leader never applies and never
\* deletes cluster resources.
C7_OnlyLeaderTouchesCluster ==
    ~is_leader => (~AppliedInHook /\ ~Ran("delete_many"))

-----------------------------------------------------------------------------
(* C8: a status-carrying failure in the pipeline *)

\* The place of a step in the order of the pipeline.
StepRank(step) ==
    CASE step = "_on_event" -> 0
      [] step = "_check_leader" -> 1
      [] step = "_get_interfaces" -> 2
      [] step = "_generate_config" -> 3
      [] step \in {"_get_mysql_data", "read_mysql_data", "_get_relational_db_data",
                   "fetch_relation_data"} -> 4
      [] step = "_get_object_storage" -> 5
      [] step = "_get_viz" -> 6
      [] step = "_check_container_connection" -> 7
      [] step = "push_sample_config" -> 8
      [] step = "push_config" -> 9
      [] step \in {"apply", "apply_force"} -> 10
      [] step = "update_layer" -> 11
      [] step \in {"_send_info", "send_data"} -> 12
      [] OTHER -> 13

\* The except clause of _on_event ran in the last hook.
PassFailed == Ran("return")
ReturnAt == CHOOSE i \in DOMAIN last.steps : last.steps[i] = "return"
FailedStep == last.steps[ReturnAt - 1]

NegotiatedInterfaces == _get_interfaces(negotiation, object_storage, kfp_viz, kfp_api).val

\* The status the failure of a step carries.
CarriedStatus(step) ==
    CASE step = "_check_leader" -> LeadershipStatus
      [] step = "_get_interfaces" ->
            _get_interfaces(negotiation, object_storage, kfp_viz, kfp_api).err
      [] StepRank(step) = 4 -> _get_db_data(mysql, relational_db).err
      [] step = "_get_object_storage" -> _get_object_storage(NegotiatedInterfaces).err
      [] step = "_get_viz" -> _get_viz(NegotiatedInterfaces).err
      [] step = "_check_container_connection" ->
            MaintenanceStatus(<<"Pod", "startup", "is", "not", "complete">>)
      [] step = "update_layer" -> BlockedStatus(<<"Failed", "to", "replan">>)
      [] OTHER -> NoStatus

\* C8: when a step of the pipeline fails with a status-carrying failure, the
\* pass sets the unit status to exactly the carried status and executes no
\* later step of the pipeline in that pass, and the files pushed and the
\* resources applied by the steps that completed in that pass are left in
\* place.  The status the pass set is the unit's when the trigger ends with
\* the pass; the periodic status refresh goes on after its pass.
C8_FailureStopsPass ==
    PassFailed
        => (/\ CarriedStatus(FailedStep) # NoStatus
            /\ last.pass = CarriedStatus(FailedStep)
            /\ last.handler # "_on_update_status"
                   => status = CarriedStatus(FailedStep)
            /\ \A i \in 1..(ReturnAt - 1) :
                   StepRank(last.steps[i]) <= StepRank(FailedStep)
            /\ Ran("push_config")
                   => files = [sample |-> TRUE,
                               config |-> _generate_config(NegotiatedInterfaces, mysql,
                                                           relational_db).val]
            /\ Ran("apply") => resources = "applied")

\* The update of the layer fails after the push and the apply.
C8_Witness ==
    /\ PassFailed
    /\ FailedStep = "update_layer"
    /\ status = BlockedStatus(<<"Failed", "to", "replan">>)
    /\ Ran("push_config")
    /\ Ran("apply")
    /\ ~Ran("_send_info")
    /\ files.config # NoConfig
    /\ resources = "applied"

-----------------------------------------------------------------------------
(* C9: the container cannot be reached *)

\* A pass whose configuration generation succeeded, with a container that
\* cannot be reached.
GeneratedUnreachable ==
    /\ is_leader
    /\ negotiation = "ok"
    /\ _generate_config(NegotiatedInterfaces, mysql, relational_db).exc = "none"
    /\ ~can_connect
    /\ Ran("_on_event")

NothingAfterConnection ==
    /\ Ran("_check_container_connection")
    /\ ~Pushed
    /\ ~AppliedInHook
    /\ ~Ran("update_layer")
    /\ ~Ran("_send_info")
    /\ ~Ran("send_data")

PodStartupStatus == MaintenanceStatus(<<"Pod", "startup", "is", "not", "complete">>)

-----------------------------------------------------------------------------
(* C10: Active is the last action of the pipeline *)

\* The steps of _on_event in the last hook: _on_update_status goes on with
\* _check_status.
PassLen ==
    IF Ran("_check_status")
    THEN (CHOOSE i \in DOMAIN last.steps : last.steps[i] = "_check_status") - 1
    ELSE Len(last.steps)
PassSteps == SubSeq(last.steps, 1, PassLen)

SetsActive == \E i \in 1..PassLen : last.steps[i] = "ActiveStatus"

\* The steps the pipeline has to complete, in its order, and Active.
MainSteps ==
    <<"_check_leader", "_get_interfaces", "_generate_config", "push_sample_config",
      "push_config", "apply", "update_layer", "_send_info", "ActiveStatus">>
IsMainStep(step) == \E i \in DOMAIN MainSteps : MainSteps[i] = step

\* The environment lets every step of the pipeline complete.
PassCanComplete ==
    /\ is_leader
    /\ negotiation = "ok"
    /\ _generate_config(NegotiatedInterfaces, mysql, relational_db).exc = "none"
    /\ can_connect
    /\ ApplySucceeds
    /\ replan = "ok"

\* C10: the pipeline sets status Active only as its last action, after the
\* leadership check, the interface fetch, the configuration generation, the
\* push of the sample file and of the generated document, the resource apply,
\* the layer update and the peer notification completed in this order within
\* the same pass; a pass in which any of them did not complete never sets
\* Active.
C10_ActiveLast ==
    Ran("_on_event")
        => (/\ SetsActive
                   => (/\ last.steps[PassLen] = "ActiveStatus"
                       /\ SelectSeq(PassSteps, IsMainStep) = MainSteps
                       /\ last.pass = ActiveStatus
                       /\ files = [sample |-> TRUE,
                                   config |-> _generate_config(NegotiatedInterfaces, mysql,
                                                               relational_db).val]
                       /\ resources = "applied")
            /\ ~PassCanComplete => (~SetsActive /\ last.pass # ActiveStatus))

\* An upgrade that forces a conflict and ends Active.
C10_Witness ==
    /\ last.handler = "_on_upgrade"
    /\ k8s_api = "conflict"
    /\ Ran("apply_force")
    /\ SetsActive
    /\ status = ActiveStatus

-----------------------------------------------------------------------------
(* C11: update-status after a pass that ended Waiting or Blocked *)

\* The last hook is update-status and its pass of the pipeline ended Waiting
\* or Blocked.
UpdateStatusStopped ==
    /\ last.handler = "_on_update_status"
    /\ last.pass.name \in {"waiting", "blocked"}

\* C11: on an update-status trigger, if the pass of the pipeline ends Waiting
\* or Blocked, the health check is not run and the final status of the
\* trigger is that Waiting or Blocked status.
C11_NoCheckAfterStop ==
    UpdateStatusStopped
        => (/\ ~Ran("_check_status")
            /\ ~Ran("get_check")
            /\ last.exc = "none"
            /\ status = last.pass
            /\ last.steps[Len(last.steps)] = "return")

\* Blocked because no database relation is present, on a leader whose
\* workload check would answer up.
C11_Witness ==
    /\ UpdateStatusStopped
    /\ is_leader
    /\ mysql.count = 0
    /\ ~relational_db.present
    /\ check = "up"
    /\ can_connect
    /\ status.name = "blocked"
    /\ Contains(status.message, <<"database", "relation">>)

-----------------------------------------------------------------------------
(* C12: update-status after a pass that ended Active *)

HealthCheckStatus == MaintenanceStatus(<<"Workload", "failed", "health", "check">>)

\* The last hook is update-status and its pass of the pipeline ended Active.
UpdateStatusPassed ==
    /\ last.handler = "_on_update_status"
    /\ last.pass = ActiveStatus

\* C12: on an update-status trigger whose pass of the pipeline ends Active,
\* if the health check of the workload reports down the final status of the
\* trigger is Maintenance (workload failed health check) and not Active; if
\* the check is not down the final status is Active.
C12_HealthCheckDecides ==
    UpdateStatusPassed
        => (/\ Ran("_check_status")
            /\ Ran("get_check")
            /\ check = "down" => (status = HealthCheckStatus /\ last.exc = "none")
            /\ check # "down" => status = ActiveStatus
            /\ check = "up" => last.exc = "none")

C12_Witness ==
    /\ UpdateStatusPassed
    /\ check = "down"
    /\ status = HealthCheckStatus
    /\ files.config # NoConfig
    /\ resources = "applied"

-----------------------------------------------------------------------------
(* C13: the forced apply *)

\* How many times a step is in the log of the last hook.
Times(step) == Cardinality({i \in DOMAIN last.steps : last.steps[i] = step})

\* The API answered the apply of the last hook with a conflict and the hook
\* asked for forcing.
ConflictForced ==
    /\ last.handler = "_on_upgrade"
    /\ _check_and_report_k8s_conflict(k8s_api)

\* C13: a forced apply happens only in a pass of the upgrade trigger and only
\* after the apply without force of the same pass failed with a conflict; it
\* is attempted at most once in a pass; a conflict without forcing asked for
\* and any other API error are fatal and abort the trigger with no forced
\* attempt.
C13_ForceOnlyOnUpgradeConflict ==
    /\ Ran("apply_force")
           => (/\ ConflictForced
               /\ Times("apply_force") = 1
               /\ Times("apply") = 1
               /\ \E i \in DOMAIN last.steps :
                      /\ last.steps[i] = "apply"
                      /\ last.steps[i + 1] = "apply_force")
    /\ (Ran("apply") /\ k8s_api # "ok" /\ ~ConflictForced)
           => (/\ ~Ran("apply_force")
               /\ last.exc = "GenericCharmRuntimeError"
               /\ last.steps[Len(last.steps)] = "apply"
               /\ status = MaintenanceStatus(<<"Creating", "K8S", "resources">>))

\* An upgrade that takes over the conflicting fields and goes on to Active.
C13_Witness ==
    /\ last.handler = "_on_upgrade"
    /\ k8s_api = "conflict"
    /\ Ran("apply_force")
    /\ resources = "applied"
    /\ Ran("update_layer")
    /\ status = ActiveStatus

-----------------------------------------------------------------------------
(* C14: the install trigger *)

ResourcesCreatedStatus == MaintenanceStatus(<<"K8S", "resources", "created">>)

\* C14: the install trigger runs the resource apply only: it applies the
\* cluster resources without forcing, fetches no interfaces, generates and
\* pushes no configuration, updates no layer and notifies no peer, and on
\* success leaves the status at Maintenance (resources created), never
\* Active, Waiting or Blocked.
C14_InstallAppliesOnly ==
    last.handler = "_on_install"
        => (/\ last.steps = <<"apply">>
            /\ ~Ran("_on_event")
            /\ files = NoFiles
            /\ last.exc = "none" <=> k8s_api = "ok"
            /\ last.exc = "none"
                   => (/\ status = ResourcesCreatedStatus
                       /\ status.name \notin {"active", "waiting", "blocked"}
                       /\ resources = "applied")
            /\ last.exc # "none"
                   => (/\ last.exc = "GenericCharmRuntimeError"
                       /\ resources = "absent"))

\* An install that succeeds on a unit the pipeline would leave Blocked.
C14_Witness ==
    /\ last.handler = "_on_install"
    /\ is_leader
    /\ mysql.count = 0
    /\ ~relational_db.present
    /\ status = ResourcesCreatedStatus
    /\ resources = "applied"

-----------------------------------------------------------------------------
(* C15: the remove trigger *)

RemovingStatus == MaintenanceStatus(<<"Removing", "K8S", "resources">>)
RemovedStatus == MaintenanceStatus(<<"K8S", "resources", "removed">>)

\* C15: the remove trigger runs the teardown only and never the pipeline: it
\* sets Maintenance, deletes the rendered resources and takes a not-found
\* (404) error of the deletion for success, ending with status Maintenance
\* (resources removed); any other API error aborts the trigger and the
\* status stays at the Maintenance value set before the deletion.
C15_RemoveTearsDown ==
    last.handler = "_on_remove"
        => (/\ ~Ran("_on_event")
            /\ SubSeq(last.steps, 1, 2) = <<"render_manifests", "delete_many">>
            /\ \A i \in DOMAIN last.steps :
                   last.steps[i] \in {"render_manifests", "delete_many", "ApiError", "404"}
            /\ (~Ran("ApiError") \/ Ran("404"))
                   => (/\ last.exc = "none"
                       /\ status = RemovedStatus
                       /\ resources = "absent")
            /\ (Ran("ApiError") /\ ~Ran("404"))
                   => (/\ last.exc = "ApiError"
                       /\ status = RemovingStatus))

\* A deletion answered 404 on a unit whose resources were never applied.
C15_Witness ==
    /\ last.handler = "_on_remove"
    /\ Ran("404")
    /\ last.exc = "none"
    /\ status = RemovedStatus
    /\ resources = "absent"
    /\ k8s_api # "ok"

-----------------------------------------------------------------------------
(* C16: convergence by the triggers that follow *)

\* Exactly one database relation, with complete data.
OneCompleteDatabase ==
    \/ LegacyComplete
    \/ /\ mysql.count = 0
       /\ relational_db.present
       /\ RdbMissing(relational_db.keys) = {}
       /\ Len(Split(relational_db.endpoints)) = 2

\* The environment the specification calls good: leader, one database
\* relation with complete data, valid object-storage and kfp-viz data, a
\* reachable container, an apply without conflict, a check that is not down.
StatedGood ==
    /\ is_leader
    /\ negotiation = "ok"
    /\ OneCompleteDatabase
    /\ object_storage = "valid"
    /\ kfp_viz = "valid"
    /\ can_connect
    /\ ~_check_and_report_k8s_conflict(k8s_api)
    /\ check # "down"

\* The same with an apply and an update of the layer that succeed.
GoodEnvironment == StatedGood /\ k8s_api = "ok" /\ replan = "ok"

\* The files and the resources a completed pass leaves in this environment.
Converged ==
    /\ files = [sample |-> TRUE,
                config |-> _generate_config(NegotiatedInterfaces, mysql, relational_db).val]
    /\ resources = "applied"

-----------------------------------------------------------------------------
(* C17: update-status and Active *)

\* The pass of the last hook completed every step of the pipeline.
PassCompleted ==
    /\ last.pass = ActiveStatus
    /\ SelectSeq(PassSteps, IsMainStep) = MainSteps

\* C17: on an update-status trigger the final status is Active only if the
\* pass of the pipeline of that trigger completed every step; a pass that
\* stopped at an unreachable container never ends the trigger in Active.
C17_ActiveOnlyAfterFullPass ==
    last.handler = "_on_update_status"
        => (/\ status = ActiveStatus => PassCompleted
            /\ ~can_connect => status # ActiveStatus)


-----------------------------------------------------------------------------
(* C18: departed and broken triggers of a database relation *)

RemoveHandlers == {"_on_mysql_relation_remove", "_on_relational_db_relation_remove"}

\* C18: when a relation-departed or relation-broken trigger of either database
\* relation is handled while both database relations are present, the status
\* becomes Blocked with the fixed conflict message and database resolution is
\* not attempted.
C18_RemoveTriggerBlocks ==
    (last.handler \in RemoveHandlers /\ BothPresent)
        => (/\ status = UnblockStatus
            /\ ~Ran("_get_mysql_data")
            /\ ~Ran("_get_relational_db_data"))


-----------------------------------------------------------------------------
(* C19: the mysql relation goes first *)

\* The configuration document holds the data of the relational-db relation.
ModernInConfig ==
    /\ files.config # NoConfig
    /\ files.config.DBConfig.User = RdbValue("username")

\* C19: whenever the mysql relation exists, even with no peer unit or with
\* empty peer data, a pass never reads the data of the relational-db relation
\* and that data never ends up in the configuration the pass generates.
C19_LegacyFirst ==
    (mysql.count >= 1 /\ PassEnded)
        => (/\ ~Ran("fetch_relation_data")
            /\ Ran("push_config") => ~ModernInConfig)


-----------------------------------------------------------------------------
(* C20: the relational-db relation alone, with data that cannot be used *)

\* Only the relational-db relation is present and its data cannot be used:
\* nothing returned, a required key missing, or an endpoints value that is
\* not one host:port pair.
ModernUnusable ==
    /\ mysql.count = 0
    /\ relational_db.present
    /\ \/ relational_db.keys = {}
       \/ RdbMissing(relational_db.keys) # {}
       \/ Len(Split(relational_db.endpoints)) # 2

\* C20: with only the relational-db relation present and no data returned, a
\* required key missing or an endpoints value that is not exactly one
\* host:port pair, resolution fails with Waiting, the pass ends with status
\* Waiting and the trigger does not abort with an uncaught error.
C20_ModernUnusableWaits ==
    (ModernUnusable /\ Ran("_get_relational_db_data"))
        => (/\ _get_db_data(mysql, relational_db).exc = "ErrorWithStatus"
            /\ _get_db_data(mysql, relational_db).err.name = "waiting"
            /\ last.exc = "none"
            /\ last.pass.name = "waiting")

-----------------------------------------------------------------------------
(* C21: object-storage and kfp-viz relations without usable data *)

\* A pass ran as the leader, the interfaces were negotiated and the database
\* was resolved, so that the validation of object-storage is reached.
ObjectStorageValidated ==
    /\ PassEnded
    /\ is_leader
    /\ negotiation = "ok"
    /\ _get_db_data(mysql, relational_db).exc = "none"
    /\ Ran("_get_object_storage")

\* The validation of kfp-viz is reached as well.
VizValidated ==
    /\ ObjectStorageValidated
    /\ object_storage = "valid"
    /\ Ran("_get_viz")

WaitingForData(relation_name) ==
    WaitingStatus(<<"Waiting", "for", relation_name, "relation", "data">>)

FoundEmptyData(relation_name) ==
    BlockedStatus(<<"Found", "empty", "relation", "data", "for", relation_name>>)

-----------------------------------------------------------------------------
(* C22: failures that carry a status *)

TooManyMysqlStatus ==
    BlockedStatus(<<"Too", "many", "mysql", "relations", ".">> \o MYSQL_WARNING)

\* C22: every failure that carries a status and is raised while a trigger is
\* handled, the too-many-relations failure of the mysql pre-check included,
\* is caught and ends the trigger with the unit status equal to the carried
\* status; none escapes the handler and leaves the status unchanged.
C22_StatusFailuresCaught ==
    /\ last.exc # "ErrorWithStatus"
    /\ (last.handler = "_on_mysql_relation" /\ mysql.count > 1)
           => status = TooManyMysqlStatus
    /\ (PassFailed /\ last.handler # "_on_update_status")
           => status = CarriedStatus(FailedStep)

-----------------------------------------------------------------------------
(* C23: failures without a status in the apply step *)

\* The pass of the last hook reached the apply step and the API refused it.
ApplyRefused ==
    /\ Ran("_on_event")
    /\ Ran("apply")
    /\ k8s_api # "ok"

\* The refusal was a conflict the hook had asked to force, and forcing
\* resolved it.
ForcedThrough == ConflictForced /\ k8s_api = "conflict"

CreatingStatus == MaintenanceStatus(<<"Creating", "K8S", "resources">>)
ForceApplyingStatus == MaintenanceStatus(<<"Force", "applying", "K8S", "resources">>)

\* C23: a failure without a status in the pipeline (an apply conflict when
\* forcing was not requested, a non-conflict API error on apply, a failed
\* forced apply) is not converted into a status: the trigger aborts, the
\* process-layer update and the peer notification do not run, and the status
\* is left at the last Maintenance value written before the failure, never
\* set to Active, Waiting or Blocked by that pass.
C23_StatuslessFailureAborts ==
    (ApplyRefused /\ ~ForcedThrough)
        => (/\ last.exc \in {"GenericCharmRuntimeError", "ApiError"}
            /\ last.exc = "ApiError" <=> Ran("apply_force")
            /\ ~Ran("update_layer")
            /\ ~Ran("_send_info")
            /\ ~Ran("send_data")
            /\ last.pass = NoStatus
            /\ ~Ran("ActiveStatus")
            /\ status = IF Ran("apply_force") THEN ForceApplyingStatus ELSE CreatingStatus)

\* A forced apply that failed in its turn, after the files were pushed.
C23_Witness ==
    /\ ApplyRefused
    /\ last.handler = "_on_upgrade"
    /\ k8s_api = "conflict_unforceable"
    /\ Ran("apply_force")
    /\ last.exc = "ApiError"
    /\ status = ForceApplyingStatus
    /\ Ran("push_config")

-----------------------------------------------------------------------------
(* C24: the configuration document is never partial *)

DbParameters == {"db_name", "db_password", "db_username", "db_host", "db_port"}

\* Database resolution returns all five parameters.
DbResolved ==
    /\ _get_db_data(mysql, relational_db).exc = "none"
    /\ DOMAIN _get_db_data(mysql, relational_db).val = DbParameters
    /\ \A k \in DbParameters : _get_db_data(mysql, relational_db).val[k] # ""

\* The three inputs of the document are there.
InputsComplete ==
    /\ DbResolved
    /\ object_storage = "valid"
    /\ kfp_viz = "valid"

-----------------------------------------------------------------------------
(* C25: the pipeline is idempotent *)

\* A trigger that runs the pipeline is handled a second time in a row: an
\* environment change in between would have cleared the record of the hook.
SecondRun ==
    /\ last.handler \in PipelineHandlers
    /\ last'.handler = last.handler

\* The second run ends as the first did: same document, same resources, same
\* steps, same failure if any, same status.
SameAsFirst ==
    /\ files' = files
    /\ resources' = resources
    /\ status' = status
    /\ last' = last

====
